---- MODULE Spec2Model ----
(***************************************************************************)
(* Flake v1 identifier generator (flake.go): New, Next, NextHex, NextB64,  *)
(* tick and Validate.                                                      *)
(*                                                                         *)
(* A uint64 is kept as four 16-bit limbs, most significant first, because  *)
(* the model checker's integers are narrower than 64 bits.  Byte slices    *)
(* are sequences of 0..255; a slice handed to Validate carries its backing *)
(* array up to its capacity and its length.                                *)
(***************************************************************************)
EXTENDS Integers, Sequences, FiniteSets

\* ------------------------------------------------------------------ bounds

\* Calls to Next/NextHex/NextB64 started in one run.
MaxCalls == 3

\* Clock readings of the present day: NowNanos + 400 ns * (0..MaxTick).
MaxTick == 1

\* The longest input handed to Validate.
MaxLen == 13

\* ------------------------------------------------------- bytes and uint64

Byte == 0 .. 255

\* a | b on naturals, bit by bit from the lowest.
bitOr[a \in Nat, b \in Nat] ==
    IF a = 0 THEN b
    ELSE IF b = 0 THEN a
    ELSE (IF a % 2 = 1 \/ b % 2 = 1 THEN 1 ELSE 0) + 2 * bitOr[a \div 2, b \div 2]

\* a | b on naturals.
BitOr(a, b) == bitOr[a, b]

RECURSIVE BitXor(_, _)
\* a ^ b on naturals.
BitXor(a, b) ==
    IF a = 0 THEN b
    ELSE IF b = 0 THEN a
    ELSE (IF a % 2 # b % 2 THEN 1 ELSE 0) + 2 * BitXor(a \div 2, b \div 2)

\* uint64(b) for a byte b.
U64(b) == <<0, 0, 0, b>>

\* a | b on uint64.
Or64(a, b) == [i \in 1 .. 4 |-> BitOr(a[i], b[i])]

\* A comparison that finds every candidate stale.
LeqAlways(a, b) == TRUE

\* a <= b on uint64.
Leq64(a, b) ==
    \/ a = b
    \/ \E i \in 1 .. 4 : a[i] < b[i] /\ \A j \in 1 .. (i - 1) : a[j] = b[j]

\* a / 1000 on uint64 (long division over the limbs).
Div1000(a) ==
    LET d1 == a[1]
        d2 == (d1 % 1000) * 65536 + a[2]
        d3 == (d2 % 1000) * 65536 + a[3]
        d4 == (d3 % 1000) * 65536 + a[4]
    IN  <<d1 \div 1000, d2 \div 1000, d3 \div 1000, d4 \div 1000>>

\* a << 8 on uint64: the top 8 bits are shifted out.
Shl8(a) ==
    << (a[1] % 256) * 256 + a[2] \div 256,
       (a[2] % 256) * 256 + a[3] \div 256,
       (a[3] % 256) * 256 + a[4] \div 256,
       (a[4] % 256) * 256 >>

\* a >> 60 on uint64.
Shr60(a) == a[1] \div 4096

\* The counter with the & 0xff left out.
And255Skipped(a) == a

\* a & 0xff on uint64.
And255(a) == <<0, 0, 0, a[4] % 256>>

\* a + 1 on uint64, for a below 2^16 - 1 (the counter never exceeds 255).
Inc64(a) == <<a[1], a[2], a[3], a[4] + 1>>

\* binary.BigEndian.PutUint64: the eight bytes of a uint64.
PutUint64(a) ==
    << a[1] \div 256, a[1] % 256, a[2] \div 256, a[2] % 256,
       a[3] \div 256, a[3] % 256, a[4] \div 256, a[4] % 256 >>

\* binary.BigEndian.Uint64: the uint64 of eight bytes.
Uint64(b) ==
    << b[1] * 256 + b[2], b[3] * 256 + b[4], b[5] * 256 + b[6], b[7] * 256 + b[8] >>

\* The version constants: v0 = 0 << 60, v1 = 1 << 60.
v0 == <<0, 0, 0, 0>>

v1 == <<4096, 0, 0, 0>>

\* ------------------------------------------------------------------ CRC-8

\* crc8.CRC8: polynomial 0x07, init 0x00, no reflection, xorout 0x00.
Poly == 7

RECURSIVE crcBits(_, _)
\* k steps of the table construction: shift left, xor the polynomial when the
\* top bit falls out.
crcBits(crc, k) ==
    IF k = 0 THEN crc
    ELSE crcBits(IF crc >= 128 THEN BitXor((crc * 2) % 256, Poly) ELSE crc * 2, k - 1)

\* crc8.MakeTable(crc8.CRC8).
crcT == [n \in Byte |-> crcBits(n, 8)]

\* a ^ b on bytes, tabulated.
xorT == [a \in Byte |-> [b \in Byte |-> BitXor(a, b)]]

RECURSIVE crcUpdate(_, _, _)
\* The checksum loop from data[i] on: crc = table[crc ^ data[i]].
crcUpdate(crc, data, i) ==
    IF i > Len(data) THEN crc
    ELSE crcUpdate(crcT[xorT[crc][data[i]]], data, i + 1)

\* A checksum loop that starts one byte late.
ChecksumFromSecond(data) == crcUpdate(0, data, 2)

\* The checksum loop over the whole of data.
crcOf[data \in Seq(Byte)] == crcUpdate(0, data, 1)

\* crc8.Checksum(data, crcT).
Checksum(data) == crcOf[data]

\* ------------------------------------------------------------- text forms

\* hex.Encode's hextable "0123456789abcdef", as character codes.
hexChar(n) == IF n < 10 THEN 48 + n ELSE 87 + n

\* hex.Encode(dst, src) for a dst of 2 * len(src) bytes.
hexEncode(src) ==
    [i \in 1 .. 2 * Len(src) |->
        IF i % 2 = 1 THEN hexChar(src[(i + 1) \div 2] \div 16)
        ELSE hexChar(src[i \div 2] % 16)]

\* The URL-safe base64 alphabet "A-Za-z0-9-_", as character codes.
b64Char(n) ==
    IF n < 26 THEN 65 + n
    ELSE IF n < 52 THEN 71 + n
    ELSE IF n < 62 THEN n - 4
    ELSE IF n = 62 THEN 45
    ELSE 95

\* The 6-bit value of character k (0..3) of the group that starts at src[j].
b64Sextet(src, j, k) ==
    CASE k = 0 -> src[j] \div 4
      [] k = 1 -> (src[j] % 4) * 16 + src[j + 1] \div 16
      [] k = 2 -> (src[j + 1] % 16) * 4 + src[j + 2] \div 64
      [] k = 3 -> src[j + 2] % 64

\* base64.URLEncoding.Encode(dst, src) for a src of a multiple of 3 bytes
\* (no padding is written).
b64Encode(src) ==
    [i \in 1 .. 4 * (Len(src) \div 3) |->
        b64Char(b64Sextet(src, 3 * ((i - 1) \div 4) + 1, (i - 1) % 4))]

\* What a decoder gives back: the bytes, or an error.
Decoded(b) == [err |-> FALSE, bytes |-> b]

DecodeError == [err |-> TRUE, bytes |-> <<>>]

\* hex.Decode's fromHexChar: the value of a hex digit, -1 for any other byte.
fromHexChar(c) ==
    IF c >= 48 /\ c <= 57 THEN c - 48
    ELSE IF c >= 97 /\ c <= 102 THEN c - 87
    ELSE IF c >= 65 /\ c <= 70 THEN c - 55
    ELSE -1

\* hex.Decode(dst, src), as the tests call it on the text NextHex returned.
hexDecode(src) ==
    IF Len(src) % 2 = 1 \/ \E i \in 1 .. Len(src) : fromHexChar(src[i]) < 0
    THEN DecodeError
    ELSE Decoded([i \in 1 .. (Len(src) \div 2) |->
                     fromHexChar(src[2 * i - 1]) * 16 + fromHexChar(src[2 * i])])

\* The 6-bit value of a character of the URL-safe alphabet, -1 for any other.
b64Value(c) ==
    IF c >= 65 /\ c <= 90 THEN c - 65
    ELSE IF c >= 97 /\ c <= 122 THEN c - 71
    ELSE IF c >= 48 /\ c <= 57 THEN c + 4
    ELSE IF c = 45 THEN 62
    ELSE IF c = 95 THEN 63
    ELSE -1

\* Byte k (0..2) of the group of four characters that starts at src[j].
b64Octet(src, j, k) ==
    CASE k = 0 -> b64Value(src[j]) * 4 + b64Value(src[j + 1]) \div 16
      [] k = 1 -> (b64Value(src[j + 1]) % 16) * 16 + b64Value(src[j + 2]) \div 4
      [] k = 2 -> (b64Value(src[j + 2]) % 4) * 64 + b64Value(src[j + 3])

\* base64.URLEncoding.Decode(dst, src) for a text without padding, as the tests
\* call it on the text NextB64 returned.
b64Decode(src) ==
    IF Len(src) % 4 # 0 \/ \E i \in 1 .. Len(src) : b64Value(src[i]) < 0
    THEN DecodeError
    ELSE Decoded([i \in 1 .. 3 * (Len(src) \div 4) |->
                     b64Octet(src, 4 * ((i - 1) \div 3) + 1, (i - 1) % 3)])

\* -------------------------------------------------------------- generator

\* Worker IDs handed to New: 0x00aaaaaa (the tests' AAx24) and 0x01abcdef,
\* which is wider than 24 bits.
WorkerIDs == {11184810, 28036591}

\* The random byte New reads: the smallest, and the largest (one step from the wrap).
Seeds == {0, 255}

\* time.Now().UTC().UnixNano() as uint64: 2026-11-01T11:59:59.999971732Z.
NowNanos == <<6371, 59912, 50289, 4500>>

\* Readings in year 2255, at and after 2^53 microseconds.
FarNanos == {<<32000, 0, 0, 0>>}

\* The clock readings a call may see, in any order.
Clock ==
    {<<NowNanos[1], NowNanos[2], NowNanos[3], NowNanos[4] + 400 * k>> :
        k \in 0 .. MaxTick} \cup FarNanos

\* The worker ID of the tests, AAx24.
SeqWorkers == {11184810}

Gens == {1, 2}

Threads == {1, 2}

NoThread == 0

Ops == {"Next", "NextHex", "NextB64"}

\* Worker bytes packed with every shift eight bits too far.
widBytesShifted(wid) ==
    <<(wid \div 16777216) % 256, (wid \div 65536) % 256, (wid \div 256) % 256>>

\* buf[8..10] as New packs them: uint8(wid >> 16), uint8(wid >> 8), uint8(wid).
widBytes(wid) == <<(wid \div 65536) % 256, (wid \div 256) % 256, wid % 256>>

\* New(wid) with rnd the byte read from crypto/rand.
New(wid, rnd) ==
    [ buf     |-> <<0, 0, 0, 0, 0, 0, 0, 0>> \o widBytes(wid) \o <<0>>,
      enc     |-> [i \in 1 .. 24 |-> 0],
      counter |-> U64(rnd),
      lts     |-> v0,
      lock    |-> NoThread ]

\* tick without the shift that makes room for the counter byte.
tickNoShift(f, nanos) ==
    LET us      == Div1000(nanos)
        ts      == Or64(Or64(v1, us), f.counter)
        counter == IF Leq64(ts, f.lts) THEN And255(Inc64(f.counter)) ELSE f.counter
        word    == PutUint64(Or64(Or64(v1, ts), counter))
        buf     == word \o SubSeq(f.buf, 9, 12)
    IN  [f EXCEPT !.counter = counter,
                  !.lts = ts,
                  !.buf = SubSeq(buf, 1, 11) \o <<Checksum(SubSeq(buf, 1, 11))>>]

\* tick on generator record f, with nanos the clock reading: the fields of f it
\* leaves behind.
tick(f, nanos) ==
    LET us      == Div1000(nanos)
        ts      == Or64(Or64(v1, Shl8(us)), f.counter)
        counter == IF Leq64(ts, f.lts) THEN And255(Inc64(f.counter)) ELSE f.counter
        word    == PutUint64(Or64(Or64(v1, ts), counter))
        buf     == word \o SubSeq(f.buf, 9, 12)
    IN  [f EXCEPT !.counter = counter,
                  !.lts = ts,
                  !.buf = SubSeq(buf, 1, 11) \o <<Checksum(SubSeq(buf, 1, 11))>>]

\* A mutex that never blocks.
LockNeverBlocks(f) == TRUE

\* sync.Mutex: Lock blocks while another holder has it.
LockFree(f) == f.lock = NoThread

\* A return that leaves the mutex locked.
UnlockForgotten(f) == f

\* defer f.lock.Unlock(), run as the call returns.
Unlock(f) == [f EXCEPT !.lock = NoThread]

\* ------------------------------------------------------------------ state

VARIABLES
    flakes,   \* generator -> its flake struct (buf, enc, counter, lts, lock)
    wids,     \* generator -> the wid New was called with
    thr,      \* thread -> where it is in its call, and the call's locals
    rets      \* the calls that returned, in order of return

\* The input Validate is tried on, and what became of it.
VARIABLES
    vin,      \* the slice handed to Validate
    vres,     \* Validate's answer on vin, NotRun while it has not run
    vwas,     \* Validate's answer on the input before it was damaged
    vedit     \* the last change made to vin

\* The slices Next handed to a caller who keeps them.
VARIABLES
    held      \* per kept slice: the slice, the call it came from, whether the
              \* caller has written to it

gvars == <<flakes, wids, thr, rets>>

vvars == <<vin, vres, vwas, vedit>>

vars == <<flakes, wids, thr, rets, vin, vres, vwas, vedit, held>>

NotRun == [err |-> "none", a |-> 0, b |-> 0]

NoEdit == [op |-> "none", arg |-> 0]

\* Nothing is being validated.
NoInput ==
    /\ vin = [arr |-> <<>>, len |-> 0]
    /\ vres = NotRun
    /\ vwas = NotRun
    /\ vedit = NoEdit

Idle == [pc |-> "idle", f |-> 0, op |-> "", now |-> v0, built |-> <<>>]

\* The shape of the state: the flake struct's fields per generator, the callers,
\* the values returned, and Validate's input and answer.
TypeOK ==
    /\ DOMAIN flakes \subseteq Gens /\ DOMAIN wids = DOMAIN flakes
    /\ \A g \in DOMAIN flakes :
          /\ flakes[g].buf \in [1 .. 12 -> Byte]
          /\ flakes[g].enc \in [1 .. 24 -> Byte]
          /\ flakes[g].counter \in [1 .. 4 -> 0 .. 65535]
          /\ flakes[g].lts \in [1 .. 4 -> 0 .. 65535]
          /\ flakes[g].lock \in Threads \cup {NoThread}
          /\ wids[g] \in WorkerIDs
    /\ \A t \in Threads :
          /\ thr[t].pc \in {"idle", "waiting", "locked", "ticked"}
          /\ thr[t].pc # "idle" => thr[t].f \in DOMAIN flakes /\ thr[t].op \in Ops
    /\ \A i \in 1 .. Len(rets) :
          /\ rets[i].f \in DOMAIN flakes /\ rets[i].op \in Ops
          /\ rets[i].now \in Clock
          /\ rets[i].id \in [1 .. 12 -> Byte]
    /\ vin.len \in 0 .. MaxLen /\ vin.len <= Len(vin.arr)
    /\ \A i \in 1 .. Len(vin.arr) : vin.arr[i] \in Byte
    /\ vres.err \in {"none", "nil", "version", "length", "crc", "panic"}
    /\ vwas.err \in {"none", "nil", "version", "length", "crc", "panic"}
    /\ vedit.op \in {"none", "version", "seal", "flip", "last", "resize"}

\* Calls started so far.
Started == Len(rets) + Cardinality({t \in Threads : thr[t].pc # "idle"})

\* One generator, constructed by New with any worker ID and any seed.
Init ==
    /\ \E w \in WorkerIDs, s \in Seeds :
          /\ flakes = [g \in {1} |-> New(w, s)]
          /\ wids = [g \in {1} |-> w]
    /\ thr = [t \in Threads |-> Idle]
    /\ rets = <<>>
    /\ NoInput
    /\ held = <<>>

\* Thread t calls op on generator g and takes f.lock.
Lock(t, g, op) ==
    /\ thr[t].pc = "idle"
    /\ Started < MaxCalls
    /\ g \in DOMAIN flakes
    /\ LockFree(flakes[g])
    /\ flakes' = [flakes EXCEPT ![g].lock = t]
    /\ thr' = [thr EXCEPT ![t] = [Idle EXCEPT !.pc = "locked", !.f = g, !.op = op]]
    /\ UNCHANGED <<wids, rets>>
    /\ UNCHANGED vvars
    /\ UNCHANGED held

\* f.tick() with the clock reading nanos.
TickAt(t, nanos) ==
    /\ thr[t].pc = "locked"
    /\ \E f \in {tick(flakes[thr[t].f], nanos)} :
          /\ flakes' = [flakes EXCEPT ![thr[t].f] = f]
          /\ thr' = [thr EXCEPT ![t].pc = "ticked", ![t].now = nanos,
                                ![t].built = f.buf]
    /\ UNCHANGED <<wids, rets>>
    /\ UNCHANGED vvars
    /\ UNCHANGED held

\* f.tick(), reading the clock.
Tick(t) == \E nanos \in Clock : TickAt(t, nanos)

\* The rest of the call: the copy of f.buf, or the text written to f.enc (all 24
\* bytes for hex, the first 16 for base64), then the deferred f.lock.Unlock()
\* and the return of that value to the caller.
Return(t) ==
    /\ thr[t].pc = "ticked"
    /\ LET g == thr[t].f
           f == flakes[g]
           enc == CASE thr[t].op = "Next" -> f.enc
                    [] thr[t].op = "NextHex" -> hexEncode(f.buf)
                    [] thr[t].op = "NextB64" -> b64Encode(f.buf) \o SubSeq(f.enc, 17, 24)
           ret == CASE thr[t].op = "Next" -> f.buf
                    [] thr[t].op = "NextHex" -> enc
                    [] thr[t].op = "NextB64" -> SubSeq(enc, 1, 16)
       IN  /\ flakes' = [flakes EXCEPT ![g] = Unlock([f EXCEPT !.enc = enc])]
           /\ rets' = Append(rets, [f |-> g, op |-> thr[t].op, now |-> thr[t].now,
                                    id |-> thr[t].built, val |-> ret])
    /\ thr' = [thr EXCEPT ![t] = Idle]
    /\ UNCHANGED wids
    /\ UNCHANGED vvars
    /\ UNCHANGED held

Next ==
    \/ \E t \in Threads, g \in Gens, op \in Ops : Lock(t, g, op)
    \/ \E t \in Threads : Tick(t)
    \/ \E t \in Threads : Return(t)

Spec == Init /\ [][Next]_vars

\* Two generators constructed with the same worker ID, each with its own seed.
InitTwo ==
    /\ \E w \in WorkerIDs, s \in [Gens -> Seeds] :
          /\ flakes = [g \in Gens |-> New(w, s[g])]
          /\ wids = [g \in Gens |-> w]
    /\ thr = [t \in Threads |-> Idle]
    /\ rets = <<>>
    /\ NoInput
    /\ held = <<>>

\* The threads call Next only.
NextTwo ==
    \/ \E t \in Threads, g \in Gens : Lock(t, g, "Next")
    \/ \E t \in Threads : Tick(t)
    \/ \E t \in Threads : Return(t)

SpecTwo == InitTwo /\ [][NextTwo]_vars

\* ------------------------------------------- callers that wait for the lock

\* Waiting callers all read one clock value: what the clock shows changes no
\* step a call takes.
LiveClock == {NowNanos}

\* Thread t calls op on generator g and reaches f.lock.Lock().
Begin(t, g, op) ==
    /\ thr[t].pc = "idle"
    /\ Started < MaxCalls
    /\ g \in DOMAIN flakes
    /\ thr' = [thr EXCEPT ![t] = [Idle EXCEPT !.pc = "waiting", !.f = g, !.op = op]]
    /\ UNCHANGED <<flakes, wids, rets>>
    /\ UNCHANGED vvars
    /\ UNCHANGED held

\* f.lock.Lock() returns in thread t: the mutex was free and is now t's.
Acquire(t) ==
    /\ thr[t].pc = "waiting"
    /\ LockFree(flakes[thr[t].f])
    /\ flakes' = [flakes EXCEPT ![thr[t].f].lock = t]
    /\ thr' = [thr EXCEPT ![t].pc = "locked"]
    /\ UNCHANGED <<wids, rets>>
    /\ UNCHANGED vvars
    /\ UNCHANGED held

TickLive(t) == \E nanos \in LiveClock : TickAt(t, nanos)

\* One generator with the tests' worker ID.
InitLive ==
    /\ \E w \in SeqWorkers, s \in Seeds :
          /\ flakes = [g \in {1} |-> New(w, s)]
          /\ wids = [g \in {1} |-> w]
    /\ thr = [t \in Threads |-> Idle]
    /\ rets = <<>>
    /\ NoInput
    /\ held = <<>>

NextLive ==
    \/ \E t \in Threads, op \in Ops : Begin(t, 1, op)
    \/ \E t \in Threads : Acquire(t)
    \/ \E t \in Threads : TickLive(t)
    \/ \E t \in Threads : Return(t)

\* The scheduler runs every goroutine that can run, and sync.Mutex hands the
\* lock to a goroutine that keeps waiting for it (starvation mode).
Fairness ==
    \A t \in Threads :
        /\ SF_vars(Acquire(t))
        /\ WF_vars(TickLive(t))
        /\ WF_vars(Return(t))

SpecLive == InitLive /\ [][NextLive]_vars /\ Fairness

\* ---------------------------------------------------------------- Validate

\* A []byte handed to Validate: arr is its backing array from the slice's start
\* to its capacity, len its length.
Slice(arr, len) == [arr |-> arr, len |-> len]

\* A slice that owns exactly its bytes (make([]byte, n), a decoded buffer).
Bytes(b) == Slice(b, Len(b))

\* What Validate gives back: nil, one of its three errors with the values the
\* message carries, or a run-time panic (slice bounds out of range).
Nil == [err |-> "nil", a |-> 0, b |-> 0]

ErrVersion(v) == [err |-> "version", a |-> v, b |-> 0]

ErrLength(lid) == [err |-> "length", a |-> lid, b |-> 0]

ErrCRC(fcs, got) == [err |-> "crc", a |-> fcs, b |-> got]

Panic == [err |-> "panic", a |-> 0, b |-> 0]

\* Validate with the checksum compared before the version.
ValidateCrcFirst(id) ==
    IF Len(id.arr) < 11 THEN Panic
    ELSE LET ts  == Uint64(SubSeq(id.arr, 1, 8))
             v   == Shr60(ts)
             fcs == Checksum(SubSeq(id.arr, 1, 11))
         IN  IF id.len # 12 THEN ErrLength(id.len)
             ELSE IF fcs # id.arr[12] THEN ErrCRC(fcs, id.arr[12])
             ELSE IF v # 1 THEN ErrVersion(v)
             ELSE Nil

\* Validate without the checksum comparison.
ValidateNoCrc(id) ==
    IF Len(id.arr) < 8 THEN Panic
    ELSE LET ts == Uint64(SubSeq(id.arr, 1, 8))
             v  == Shr60(ts)
         IN  IF v # 1 THEN ErrVersion(v)
             ELSE IF id.len # 12 THEN ErrLength(id.len)
             ELSE Nil

\* Validate(id).  id[:8] reslices up to the capacity and panics beyond it.
Validate(id) ==
    IF Len(id.arr) < 8 THEN Panic
    ELSE LET ts == Uint64(SubSeq(id.arr, 1, 8))
             v  == Shr60(ts)
         IN  IF v # 1 THEN ErrVersion(v)
             ELSE IF id.len # 12 THEN ErrLength(id.len)
             ELSE LET fcs == Checksum(SubSeq(id.arr, 1, 11))
                  IN  IF fcs # id.arr[12] THEN ErrCRC(fcs, id.arr[12]) ELSE Nil

\* ---------------------------------------------------- inputs for Validate

\* Values written over the checksum byte.
LastBytes == {0, 85, 170, 255}

\* b with bit i flipped; bit 0 is the most significant bit of b[1].
FlipBit(b, i) ==
    [b EXCEPT ![i \div 8 + 1] = xorT[@][2 ^ (7 - (i % 8))]]

\* b with its top four bits set to v.
WithVersion(b, v) == [b EXCEPT ![1] = v * 16 + (@ % 16)]

\* The first n bytes of b, zero-filled beyond its end.
Resized(b, n) == [i \in 1 .. n |-> IF i <= Len(b) THEN b[i] ELSE 0]

\* No generator is running.
NoGens ==
    /\ flakes = <<>>
    /\ wids = <<>>
    /\ thr = [t \in Threads |-> Idle]
    /\ rets = <<>>

\* The input is the identifier a fresh generator builds on its first tick.
InitV ==
    /\ NoGens
    /\ \E w \in WorkerIDs, s \in Seeds, nanos \in Clock :
          vin = Bytes(tick(New(w, s), nanos).buf)
    /\ vres = NotRun
    /\ vwas = NotRun
    /\ vedit = NoEdit
    /\ held = <<>>

\* Before the first validation the version nibble may be rewritten ...
SetVersion(v) ==
    /\ vres = NotRun /\ vwas = NotRun /\ vedit = NoEdit
    /\ vin' = [vin EXCEPT !.arr = WithVersion(@, v)]
    /\ vedit' = [op |-> "version", arg |-> v]
    /\ UNCHANGED <<vres, vwas>>
    /\ UNCHANGED gvars
    /\ UNCHANGED held

\* ... and the checksum byte then brought up to date.
Seal ==
    /\ vres = NotRun /\ vwas = NotRun /\ vedit.op = "version"
    /\ vin' = [vin EXCEPT !.arr = [@ EXCEPT ![12] = Checksum(SubSeq(vin.arr, 1, 11))]]
    /\ vedit' = [op |-> "seal", arg |-> vedit.arg]
    /\ UNCHANGED <<vres, vwas>>
    /\ UNCHANGED gvars
    /\ UNCHANGED held

\* err := Validate(vin).
RunValidate ==
    /\ vres = NotRun
    /\ vres' = Validate(vin)
    /\ UNCHANGED <<vin, vwas, vedit>>
    /\ UNCHANGED gvars
    /\ UNCHANGED held

\* A validated input is damaged once: one bit flipped,
Flip(i) ==
    /\ vres # NotRun /\ vwas = NotRun
    /\ vin' = [vin EXCEPT !.arr = FlipBit(@, i)]
    /\ vedit' = [op |-> "flip", arg |-> i]
    /\ vwas' = vres
    /\ vres' = NotRun
    /\ UNCHANGED gvars
    /\ UNCHANGED held

\* or its last byte overwritten,
SetLast(b) ==
    /\ vres # NotRun /\ vwas = NotRun
    /\ vin' = [vin EXCEPT !.arr = [@ EXCEPT ![12] = b]]
    /\ vedit' = [op |-> "last", arg |-> b]
    /\ vwas' = vres
    /\ vres' = NotRun
    /\ UNCHANGED gvars
    /\ UNCHANGED held

\* or it is cut or extended to n bytes: copied into a buffer of its own
\* (capacity n), or resliced id[:n] over the same backing array.
Resize(n, own) ==
    /\ vres # NotRun /\ vwas = NotRun
    /\ own \/ n <= Len(vin.arr)
    /\ vin' = IF own THEN Bytes(Resized(vin.arr, n)) ELSE Slice(vin.arr, n)
    /\ vedit' = [op |-> "resize", arg |-> n]
    /\ vwas' = vres
    /\ vres' = NotRun
    /\ UNCHANGED gvars
    /\ UNCHANGED held

NextV ==
    \/ \E v \in 0 .. 15 : SetVersion(v)
    \/ Seal
    \/ RunValidate
    \/ \E i \in 0 .. 95 : Flip(i)
    \/ \E b \in LastBytes : SetLast(b)
    \/ \E n \in 0 .. MaxLen, own \in BOOLEAN : Resize(n, own)

SpecV == InitV /\ [][NextV]_vars

\* ------------------------------------------------- one caller, in sequence

\* The random bytes tried with a single caller: 0, an odd value, and 255.
SeqSeeds == {0, 1, 255}

\* Two readings in consecutive microseconds, and the far ones.
SeqClock ==
    {NowNanos, <<NowNanos[1], NowNanos[2], NowNanos[3], NowNanos[4] + 400>>}
        \cup FarNanos

\* A slice that is f.buf itself.
copyAlias(f) == [alias |-> TRUE, bytes |-> <<>>]

\* Next's ret := make([]byte, len(f.buf)); copy(ret, f.buf): a slice with a
\* backing array of its own.
copyOut(f) == [alias |-> FALSE, bytes |-> f.buf]

\* What a kept slice reads as now.
Contents(h) == IF h.slice.alias THEN flakes[1].buf ELSE h.slice.bytes

\* One generator and one caller.
InitSeq ==
    /\ \E w \in SeqWorkers, s \in SeqSeeds :
          /\ flakes = [g \in {1} |-> New(w, s)]
          /\ wids = [g \in {1} |-> w]
    /\ thr = [t \in Threads |-> Idle]
    /\ rets = <<>>
    /\ NoInput
    /\ held = <<>>

\* A whole call of op, from Lock to the return, with nanos the clock reading;
\* the caller keeps the slice Next returns.
Call(op, nanos) ==
    /\ Len(rets) < MaxCalls
    /\ LockFree(flakes[1])
    /\ LET f   == tick(flakes[1], nanos)
           enc == CASE op = "Next" -> f.enc
                    [] op = "NextHex" -> hexEncode(f.buf)
                    [] op = "NextB64" -> b64Encode(f.buf) \o SubSeq(f.enc, 17, 24)
           ret == CASE op = "Next" -> f.buf
                    [] op = "NextHex" -> enc
                    [] op = "NextB64" -> SubSeq(enc, 1, 16)
       IN  /\ flakes' = [flakes EXCEPT ![1] = [f EXCEPT !.enc = enc]]
           /\ rets' = Append(rets, [f |-> 1, op |-> op, now |-> nanos,
                                    id |-> f.buf, val |-> ret])
           /\ held' = IF op = "Next"
                      THEN Append(held, [slice |-> copyOut(f), call |-> Len(rets) + 1,
                                         dirty |-> FALSE])
                      ELSE held
    /\ UNCHANGED <<wids, thr>>
    /\ UNCHANGED vvars

\* The caller overwrites byte k of the i-th slice it keeps (one write per run).
Scribble(i, k) ==
    /\ i \in 1 .. Len(held)
    /\ \A j \in 1 .. Len(held) : ~held[j].dirty
    /\ IF held[i].slice.alias
       THEN /\ flakes' = [flakes EXCEPT ![1].buf[k] = 255 - @]
            /\ held' = [held EXCEPT ![i].dirty = TRUE]
       ELSE /\ held' = [held EXCEPT ![i].slice.bytes[k] = 255 - @, ![i].dirty = TRUE]
            /\ UNCHANGED flakes
    /\ UNCHANGED <<wids, thr, rets>>
    /\ UNCHANGED vvars

NextSeq ==
    \/ \E op \in Ops, nanos \in SeqClock : Call(op, nanos)
    \/ \E i \in 1 .. MaxCalls, k \in {1, 12} : Scribble(i, k)

SpecSeq == InitSeq /\ [][NextSeq]_vars

\* ------------------------------------------------------------- properties

\* a < b for byte sequences of one length read as big-endian unsigned integers.
BytesLess(a, b) ==
    \E i \in 1 .. Len(a) : a[i] < b[i] /\ \A j \in 1 .. (i - 1) : a[j] = b[j]

\* The microsecond a call read, and its low 52 bits.
Micros(r) == Div1000(r.now)

Low52(us) == <<us[1] % 16, us[2], us[3], us[4]>>

\* The value a call hands back for identifier id.
TextOf(op, id) ==
    CASE op = "Next" -> id
      [] op = "NextHex" -> hexEncode(id)
      [] op = "NextB64" -> b64Encode(id)

\* The low 24 bits of a worker ID, big-endian.
WidLow24(w) ==
    LET x == w % 16777216 IN <<x \div 65536, (x \div 256) % 256, x % 256>>

\* C1: on one generator every returned identifier, read as an unsigned
\* big-endian integer, is strictly greater than the one returned by the
\* previous call, whatever the clock readings (repeated or moving backward).
C1_StrictlyIncreasing ==
    \A i \in 1 .. (Len(rets) - 1) :
        rets[i].f = rets[i + 1].f => BytesLess(rets[i].id, rets[i + 1].id)

\* C2: successive calls on one generator that all read the same clock
\* microsecond return pairwise distinct identifiers.
C2_DistinctWithinMicrosecond ==
    \A i, j \in 1 .. Len(rets) :
        ( /\ i < j
          /\ \A m \in i .. j : rets[m].f = rets[i].f /\ Micros(rets[m]) = Micros(rets[i]) )
        => rets[i].id # rets[j].id

\* C3: every identifier returned by Next is accepted by Validate: 12 bytes,
\* top four bits 1, byte 11 the CRC-8 of bytes 0..10.
C3_NextPassesValidate ==
    \A i \in 1 .. Len(rets) :
        rets[i].op = "Next" =>
            /\ Len(rets[i].val) = 12
            /\ rets[i].val[1] \div 16 = 1
            /\ rets[i].val[12] = Checksum(SubSeq(rets[i].val, 1, 11))
            /\ Validate(Bytes(rets[i].val)) = Nil

C5_MutualExclusion ==
    /\ \A g \in DOMAIN flakes :
          Cardinality({t \in Threads : thr[t].pc # "idle" /\ thr[t].f = g}) <= 1
    /\ \A t \in Threads :
          thr[t].pc # "idle" => flakes[thr[t].f].lock = t
    /\ \A t \in Threads :
          thr[t].pc = "ticked" => flakes[thr[t].f].buf = thr[t].built
    /\ \A i \in 1 .. Len(rets) : rets[i].val = TextOf(rets[i].op, rets[i].id)

\* C5 witness: one thread has ticked and not yet encoded while the other, with
\* a call still to make, is kept out by the lock; a text call returned before.
C5_Witness ==
    \E t, u \in Threads :
        /\ thr[t].pc = "ticked" /\ thr[t].op = "NextB64"
        /\ thr[u].pc = "idle"
        /\ Started < MaxCalls
        /\ ~LockFree(flakes[thr[t].f])
        /\ Len(rets) = 1 /\ rets[1].op = "NextHex"

\* C6: for every input whose length is not 12 Validate returns the
\* wrong-length error with the observed length, without crashing.
C6_LengthCheckedFirst ==
    (vres # NotRun /\ vin.len # 12) => vres = ErrLength(vin.len)

\* C7: a 12-byte input whose top four bits are v # 1 fails with the
\* version-mismatch error reporting v, whether or not its checksum is right.
C7_VersionMismatch ==
    (vres # NotRun /\ vin.len = 12 /\ vin.arr[1] \div 16 # 1)
    => vres = ErrVersion(vin.arr[1] \div 16)

\* C7 witness: version nibble 2 under a correct checksum, rejected as v2.
C7_Witness ==
    /\ vedit = [op |-> "seal", arg |-> 2]
    /\ vin.len = 12
    /\ vin.arr[12] = Checksum(SubSeq(vin.arr, 1, 11))
    /\ vres = ErrVersion(2)

\* C8 as stated: flipping any one of the 88 bits of bytes 0..10 of an accepted
\* identifier makes Validate fail with the checksum-mismatch error.
C8_AnyFlipIsCrcMismatch ==
    (vedit.op = "flip" /\ vedit.arg < 88 /\ vwas = Nil /\ vres # NotRun)
    => vres.err = "crc"

\* C8 as amended: flipping one bit of bytes 0..10 of an accepted identifier
\* makes Validate fail: with the checksum-mismatch error for the 84 bits below
\* the version nibble, with the version-mismatch error for the 4 version bits.
C8_FlipRejected ==
    (vedit.op = "flip" /\ vedit.arg < 88 /\ vwas = Nil /\ vres # NotRun)
    => IF vedit.arg < 4
       THEN vres = ErrVersion(vin.arr[1] \div 16)
       ELSE vres.err = "crc" /\ vres.a # vres.b /\ vres.b = vin.arr[12]

\* C8 witness: an accepted identifier with a timestamp bit flipped, rejected for
\* its checksum.
C8_Witness ==
    /\ vedit = [op |-> "flip", arg |-> 40]
    /\ vwas = Nil
    /\ vres.err = "crc"

\* C9: a 12-byte input of version 1 whose byte 11 is not the CRC-8 of bytes
\* 0..10 fails with the checksum-mismatch error carrying the expected CRC and
\* the observed byte, and with nothing else.
C9_CrcMismatch ==
    LET fcs == Checksum(SubSeq(vin.arr, 1, 11))
    IN  (vres # NotRun /\ vin.len = 12 /\ vin.arr[1] \div 16 = 1 /\ vin.arr[12] # fcs)
        => vres = ErrCRC(fcs, vin.arr[12])

\* C9 witness: an accepted identifier whose last byte was overwritten with a
\* different value, rejected with both bytes reported.
C9_Witness ==
    /\ vedit.op = "last"
    /\ vwas = Nil
    /\ vres.err = "crc"
    /\ vres.b = vedit.arg
    /\ vres.a # vedit.arg

\* C10: bytes 8..10 of a generator's buffer and of every identifier it returned
\* are the low 24 bits of the worker ID given to New, also for a worker ID
\* wider than 24 bits; no call changes them.
C10_WorkerBytes ==
    /\ \A g \in DOMAIN flakes : SubSeq(flakes[g].buf, 9, 11) = WidLow24(wids[g])
    /\ \A i \in 1 .. Len(rets) :
          /\ SubSeq(rets[i].id, 9, 11) = WidLow24(wids[rets[i].f])
          /\ rets[i].op = "Next" => SubSeq(rets[i].val, 9, 11) = WidLow24(wids[rets[i].f])

\* C10 witness: a generator built with 0x01abcdef has returned twice, the
\* second time from Next with worker bytes ab cd ef.
C10_Witness ==
    /\ wids = <<28036591>>
    /\ Len(rets) = 2
    /\ rets[2].op = "Next"
    /\ SubSeq(rets[2].val, 9, 11) = <<171, 205, 239>>

\* C11: NextHex returns 24 characters and NextB64 16; decoding either text
\* gives back the 12 bytes of the identifier that call generated, and Validate
\* accepts them.
C11_TextRoundTrip ==
    \A i \in 1 .. Len(rets) :
        /\ rets[i].op = "NextHex" =>
              /\ Len(rets[i].val) = 24
              /\ hexDecode(rets[i].val) = Decoded(rets[i].id)
              /\ Validate(Bytes(hexDecode(rets[i].val).bytes)) = Nil
        /\ rets[i].op = "NextB64" =>
              /\ Len(rets[i].val) = 16
              /\ b64Decode(rets[i].val) = Decoded(rets[i].id)
              /\ Validate(Bytes(b64Decode(rets[i].val).bytes)) = Nil

\* C12: on one generator whose clock readings never decrease, a later call
\* never returns a smaller identifier (compared byte-wise, big-endian) than an
\* earlier one.
C12_NonDecreasing ==
    \A i, j \in 1 .. Len(rets) :
        ( /\ i < j
          /\ \A m \in i .. (j - 1) : Leq64(Micros(rets[m]), Micros(rets[m + 1])) )
        => ~BytesLess(rets[j].id, rets[i].id)

\* C13: the slice Next returns is a copy of the buffer. Every slice the caller
\* keeps and has not written to still reads as the identifier its call
\* returned, whatever calls came later; and a caller writing into a slice it
\* keeps changes nothing of the generator (buffer, counter, last time-word),
\* so nothing of what later calls return.
C13_ReturnedSliceIsCopy ==
    /\ [](\A i \in 1 .. Len(held) :
            ~held[i].dirty => Contents(held[i]) = rets[held[i].call].id)
    /\ [][rets' = rets => flakes' = flakes]_vars

\* C13 witness: the slice of the first call was overwritten by the caller, two
\* more calls returned, and the slice kept from the last one is intact.
C13_Witness ==
    /\ Len(rets) = 3
    /\ Len(held) >= 2
    /\ held[1].call = 1 /\ held[1].dirty
    /\ Contents(held[1]) # rets[1].id
    /\ held[Len(held)].call = 3 /\ ~held[Len(held)].dirty
    /\ flakes[1].buf = rets[3].id

\* C14: every call that has returned handed back an identifier (12 bytes, or
\* their 24 or 16 characters), a thread outside a call or still waiting holds
\* no lock, some thread can take a step whenever a call is under way, and under fair
\* scheduling every call a thread has started returns.
C14_EveryCallReturns ==
    /\ [](\A i \in 1 .. Len(rets) :
            /\ Len(rets[i].id) = 12
            /\ rets[i].val = TextOf(rets[i].op, rets[i].id))
    /\ [](\A g \in DOMAIN flakes :
            LockFree(flakes[g]) <=>
                ~\E t \in Threads : thr[t].pc \in {"locked", "ticked"} /\ thr[t].f = g)
    /\ []((\E t \in Threads : thr[t].pc # "idle") =>
            \E t \in Threads :
                \/ thr[t].pc \in {"locked", "ticked"}
                \/ thr[t].pc = "waiting" /\ LockFree(flakes[thr[t].f]))
    /\ \A t \in Threads : (thr[t].pc # "idle") ~> (thr[t].pc = "idle")

\* C14 witness: a thread has returned from a call while the other thread,
\* which waited for the lock meanwhile, now holds it.
C14_Witness ==
    \E t, u \in Threads :
        /\ Len(rets) = 1
        /\ thr[t].pc = "waiting"
        /\ thr[u].pc = "ticked"
        /\ flakes[1].lock = u

\* C15: a call that finds its candidate word (version 1, its timestamp, the
\* counter c) not above the stored last time-word leaves the counter at
\* (c + 1) mod 256 and returns that value in byte 7; a call whose candidate is
\* above it leaves the counter alone and returns c in byte 7.
C15_CounterByte ==
    [][Len(rets') = Len(rets) + 1 =>
        LET r    == rets'[Len(rets')]
            c    == flakes[1].counter[4]
            cand == Or64(Or64(v1, Shl8(Micros(r))), flakes[1].counter)
        IN  IF Leq64(cand, flakes[1].lts)
            THEN /\ flakes'[1].counter = U64((c + 1) % 256)
                 /\ r.id[8] = (c + 1) % 256
            ELSE /\ flakes'[1].counter = flakes[1].counter
                 /\ r.id[8] = c]_vars

\* C16: after every call the stored last time-word equals the 64-bit
\* big-endian word in bytes 0..7 of the identifier that call returned.
C16_LtsIsEmittedWord ==
    Len(rets) > 0 => flakes[1].lts = Uint64(SubSeq(rets[Len(rets)].id, 1, 8))

\* The 52 timestamp bits of an identifier, as a uint64 with the version nibble
\* and the counter byte cleared.
TimeBits(id) ==
    LET w == Uint64(SubSeq(id, 1, 8))
    IN  <<w[1] % 4096, w[2], w[3], (w[4] \div 256) * 256>>

\* C17: whatever the clock reads, the version nibble of a returned identifier
\* is 1 and its bits 4..55 are the call's microsecond reading modulo 2^52.
C17_TimestampMasked ==
    \A i \in 1 .. Len(rets) :
        /\ rets[i].id[1] \div 16 = 1
        /\ TimeBits(rets[i].id) = Shl8(Low52(Micros(rets[i])))

\* C18: the counter is always a value in 0..255, and a call either leaves it
\* as it was or sets it to (counter + 1) mod 256, 255 going to 0.
C18_CounterOneStep ==
    /\ [](flakes[1].counter \in {U64(c) : c \in Byte})
    /\ [][Len(rets') = Len(rets) + 1 =>
            \/ flakes'[1].counter = flakes[1].counter
            \/ flakes'[1].counter = U64((flakes[1].counter[4] + 1) % 256)]_vars

\* C18 witness: a generator seeded with 255 has made two calls and its counter
\* has gone round to 0.
C18_Witness ==
    /\ Len(rets) = 2
    /\ rets[1].id[8] = 255
    /\ flakes[1].counter = U64(0)

\* A microsecond reading below 2^52.
Below52(us) == us[1] < 16

\* C19: a call that reads a microsecond strictly greater than the previous
\* call's (both below 2^52) leaves the counter unchanged and returns a strictly
\* greater identifier; so the counter moves only on a call whose reading is not
\* greater than the previous call's.
C19_AdvancingClock ==
    [][(Len(rets) > 0 /\ Len(rets') = Len(rets) + 1) =>
        LET prev == rets[Len(rets)]
            r    == rets'[Len(rets')]
        IN  ( /\ Below52(Micros(prev)) /\ Below52(Micros(r))
              /\ BytesLess(Micros(prev), Micros(r)) )
            => /\ flakes'[1].counter = flakes[1].counter
               /\ BytesLess(prev.id, r.id)]_vars

\* C19 witness: three calls, the second in the microsecond of the first with
\* the counter moved on, the third in a later microsecond with the counter
\* left alone and a greater identifier.
C19_Witness ==
    /\ Len(rets) = 3
    /\ Micros(rets[1]) = Micros(rets[2])
    /\ BytesLess(Micros(rets[2]), Micros(rets[3]))
    /\ Below52(Micros(rets[3]))
    /\ rets[2].id[8] # rets[1].id[8]
    /\ flakes[1].counter[4] # rets[1].id[8]
    /\ BytesLess(rets[2].id, rets[3].id)

====
